---------------------------- MODULE Spec2Model ----------------------------
(***************************************************************************)
(* Model of the segment extraction library of src/lib/loader.py:          *)
(*   Signal                (index, chunk cache, range resolution)         *)
(*   SingleFileExtractor   (annotation segmenter, matching, extraction)   *)
(*   FolderExtractor       (aggregation over the files of a folder)       *)
(* and of src/lib/artefact.py, src/lib/helpers.py, src/lib/exporters.py.  *)
(*                                                                         *)
(* Units.  Times are Unix timestamps in microseconds, as in the source.   *)
(* np.linspace yields float64 points that need not be whole microseconds, *)
(* so a Segment keeps its start_time and end_time as numerators over the  *)
(* common denominator den (den = 1 for an anomalous segment).  The        *)
(* frequency field of an index entry holds the float frequency in         *)
(* millihertz, so that sub-hertz frequencies keep the sample sequences    *)
(* short; every formula of the source that uses a frequency is scaled     *)
(* accordingly.                                                            *)
(***************************************************************************)
EXTENDS Integers, Naturals, Sequences, FiniteSets, TLC

VARIABLES
    index,               \* Signal._index_data: <<[startidx, starttime, length, frequency]>>
    all_data,            \* the dataset waves/<mode> of the HDF5 file
    sgArtefacts,         \* .//SignalGroup[@Name=mode]/Artefact, document order
    globalArtefacts,     \* .//Global/Artefact, document order
    matching,            \* SingleFileExtractor._matching
    matching_multiplier, \* SingleFileExtractor._matching_multiplier
    skip_empty,          \* Signal._skip_empty
    data_cache,          \* Signal._data, in insertion order
    anomalies,           \* SingleFileExtractor._anomalies
    normal,              \* SingleFileExtractor._normal
    seg_result,          \* what the latest _get_anomaly_normal_segments returned
    kept_normal,         \* the normal list after the matching slice (line 259)
    ret_anomalies,       \* what the latest get_anomalies() returned
    ret_normal,          \* what the latest get_normal() returned
    raised,              \* how the latest call ended: "ok" or the exception
    file_path,           \* Signal._file_path, as a sequence of symbols
    seg_list,            \* the list handed to Signal.prepare_data_for_segments
    folder,              \* the .hdf5 files of the folder, in walk order
    merged,              \* TRUE for extract_merged, FALSE for extract_all
    pos,                 \* the position of the walk in folder
    pc,                  \* where the loop body of the walk stands
    folder_anomalies,    \* extract_all: anomalies
    folder_normal,       \* extract_all: normal
    patient_data_artf,   \* extract_merged: patient_data_artf, insertion order
    patient_data_normal, \* extract_merged: patient_data_normal
    frequencies,         \* the set frequencies of the running aggregation
    per_file,            \* what each processed file's getters returned
    folder_result,       \* what the aggregation returned or raised
    args,                \* the arguments of a call of a function
    result               \* what that call returned or raised

\* the state of one Signal and its SingleFileExtractor
fileVars == <<index, all_data, sgArtefacts, globalArtefacts, data_cache,
              anomalies, normal, seg_result, kept_normal, ret_anomalies,
              ret_normal, raised, file_path>>

\* the options every extractor of a run is built with
optionVars == <<matching, matching_multiplier, skip_empty>>

\* the state of a FolderExtractor aggregation
folderVars == <<folder, merged, pos, pc, folder_anomalies, folder_normal,
                patient_data_artf, patient_data_normal, frequencies,
                per_file, folder_result>>

\* the state of a call of a function
callVars == <<args, result>>

vars == <<fileVars, optionVars, folderVars, callVars, seg_list>>

---------------------------------------------------------------------------
(* Program constants *)

WINDOW == 10000000

MICROS == 1000000

NAN_SENTINEL == -99999

---------------------------------------------------------------------------
(* Bounds of the model *)

\* artefact times lie on the ticks 1..MaxTick of the time grid
MaxTick == 8

\* at most MaxSG artefacts in the channel's SignalGroup list
MaxSG == 2

\* at most MaxGL artefacts in the Global list
MaxGL == 1

\* matching_multiplier ranges over 0..MaxK
MaxK == 2

\* an index chunk holds 1..MaxLen samples
MaxLen == 2

\* an extractor's annotation file holds at most MaxArtefacts artefacts
MaxArtefacts == 2

\* a file path holds at most MaxPath symbols
MaxPath == 4

\* a folder holds at most MaxFiles signal files
MaxFiles == 2

\* the times of an Artefact range over 1..MaxStamp
MaxStamp == 2

\* prepare_data_for_segments is given at most MaxSegments segments
MaxSegments == 2

\* a timestamp string carries at most MaxDigits fraction digits
MaxDigits == 7

\* the frequencies given to the interval computation are 1..MaxHz Hz
MaxHz == 150

\* str_time_fill_ms pads the fraction to six digits, the width of %f
FRACTION_WIDTH == 6

\* the exporter cuts the last three characters of the rendering
EXPORT_CUT == 3

\* one tick of the time grid: 5 seconds
Tick == WINDOW \div 2

---------------------------------------------------------------------------
(* Arithmetic helpers *)

Min(a, b) == IF a <= b THEN a ELSE b

Max(a, b) == IF a >= b THEN a ELSE b

\* Python's int(a / b) for b > 0: truncation toward zero
TruncDiv(a, b) == IF a >= 0 THEN a \div b ELSE -((-a) \div b)

RECURSIVE Concat(_)
Concat(ss) == IF ss = <<>> THEN <<>> ELSE Head(ss) \o Concat(Tail(ss))

\* the sequences over S of length 0..n
SeqsUpTo(S, n) == UNION {[1..k -> S] : k \in 0..n}

---------------------------------------------------------------------------
(* Segment (dataclass) *)

Segment(start, end, d) ==
    [start_time |-> start, end_time |-> end, den |-> d,
     empty |-> TRUE, frequency |-> 0, data |-> <<>>]

---------------------------------------------------------------------------
(* SingleFileExtractor._get_anomaly_normal_segments *)

\* np.linspace(start, stop, num): the points start + i*(stop-start)/(num-1),
\* as numerators over num-1; one point for num = 1, none for num = 0
LinspaceDen(num) == IF num >= 2 THEN num - 1 ELSE 1

\* a variant of Linspace that steps by the fixed window, as np.arange would
LinspaceFixedStep(start, stop, num) ==
    [i \in 1..Max(0, num) |-> (start + (i - 1) * WINDOW) * LinspaceDen(num)]

Linspace(start, stop, num) ==
    [i \in 1..Max(0, num) |-> start * LinspaceDen(num) + (i - 1) * (stop - start)]

\* a variant of NumPoints that forgets the closing point of the partition
NumPointsNoPlusOne(normal_start_unix, normal_end_unix) ==
    TruncDiv(normal_end_unix - normal_start_unix, WINDOW)

\* line 242: the number of points asked of np.linspace
NumPoints(normal_start_unix, normal_end_unix) ==
    TruncDiv(normal_end_unix - normal_start_unix, WINDOW) + 1

\* line 243: the normal segments of one gap
GapSegments(normal_start_unix, normal_end_unix) ==
    LET num == NumPoints(normal_start_unix, normal_end_unix)
        arr == Linspace(normal_start_unix, normal_end_unix, num)
    IN  [i \in 1..Max(0, Len(arr) - 1) |->
            Segment(arr[i], arr[i + 1], LinspaceDen(num))]

\* lines 231-245: the loop over the artefacts of one list, from position i;
\* np.linspace raises ValueError for a negative number of points
RECURSIVE SegmentList(_, _, _, _)
SegmentList(arts, i, normal_start_unix, acc) ==
    IF acc.status # "ok" \/ i > Len(arts) THEN acc
    ELSE LET start_time_unix == arts[i].start_time
             end_time_unix == arts[i].end_time
             anom == Append(acc.anomalous,
                            Segment(start_time_unix, end_time_unix, 1))
         IN  IF normal_start_unix # 0
             THEN IF NumPoints(normal_start_unix, start_time_unix) < 0
                  THEN [status |-> "ValueError", anomalous |-> <<>>,
                        normal |-> <<>>]
                  ELSE SegmentList(arts, i + 1, end_time_unix,
                         [acc EXCEPT !.anomalous = anom,
                                     !.normal = @ \o GapSegments(
                                         normal_start_unix, start_time_unix)])
             ELSE SegmentList(arts, i + 1, end_time_unix,
                              [acc EXCEPT !.anomalous = anom])

EmptyAcc == [status |-> "ok", anomalous |-> <<>>, normal |-> <<>>]

LastEnd(arts) == IF arts = <<>> THEN 0 ELSE arts[Len(arts)].end_time

\* a variant that does not reset the normal-start marker between the lists
GetAnomalyNormalSegmentsNoReset(sg, gl) ==
    SegmentList(gl, 1, LastEnd(sg), SegmentList(sg, 1, 0, EmptyAcc))

\* a variant that walks the Global and SignalGroup artefacts as one list
GetAnomalyNormalSegmentsOneList(sg, gl) ==
    SegmentList(gl \o sg, 1, 0, EmptyAcc)

\* a variant that takes the Global list before the SignalGroup list
GetAnomalyNormalSegmentsGlobalFirst(sg, gl) ==
    SegmentList(sg, 1, 0, SegmentList(gl, 1, 0, EmptyAcc))

\* lines 226-247: the SignalGroup list first, then the Global list, the
\* normal-start marker reset to 0 before each
GetAnomalyNormalSegments(sg, gl) ==
    LET after_sg == SegmentList(sg, 1, 0, EmptyAcc)
    IN  SegmentList(gl, 1, 0, after_sg)

---------------------------------------------------------------------------
(* SingleFileExtractor._extract_matching, line 259 *)

\* Python's seq[:m]
PySliceTo(seq, m) ==
    IF m >= 0 THEN SubSeq(seq, 1, Min(m, Len(seq)))
    ELSE SubSeq(seq, 1, Max(0, Len(seq) + m))

\* a variant of MatchingSlice whose bound is inclusive
MatchingSliceInclusive(anomalous_segments, normal_segments, k) ==
    PySliceTo(normal_segments, Len(anomalous_segments) * k + 1)

MatchingSlice(anomalous_segments, normal_segments, k) ==
    PySliceTo(normal_segments, Len(anomalous_segments) * k)

---------------------------------------------------------------------------
(* Inputs *)

\* an artefact of the annotation file: 5 seconds long, starting on a tick
Artefacts == {[start_time |-> s * Tick, end_time |-> (s + 1) * Tick] :
                 s \in 1..MaxTick}

NoResult == [status |-> "none", anomalous |-> <<>>, normal |-> <<>>]

NoReturn == [status |-> "none", value |-> <<>>]

\* a path that holds the patient-id pattern: TBI_a
DefaultPath == <<"TBI_", "a">>

\* no aggregation is running
NoFolder ==
    /\ folder = <<>>
    /\ merged = FALSE
    /\ pos = 0
    /\ pc = "idle"
    /\ folder_anomalies = <<>>
    /\ folder_normal = <<>>
    /\ patient_data_artf = <<>>
    /\ patient_data_normal = <<>>
    /\ frequencies = {}
    /\ per_file = <<>>
    /\ folder_result = [status |-> "none"]

\* no function call is under study
NoCall ==
    /\ args = <<>>
    /\ result = <<>>

---------------------------------------------------------------------------
(* The segmenter and the matching policy on their own *)

InitSeg ==
    /\ index = <<>>
    /\ all_data = <<>>
    /\ sgArtefacts \in SeqsUpTo(Artefacts, MaxSG)
    /\ globalArtefacts \in SeqsUpTo(Artefacts, MaxGL)
    /\ matching = TRUE
    /\ matching_multiplier \in 0..MaxK
    /\ skip_empty = TRUE
    /\ data_cache = <<>>
    /\ anomalies = <<>>
    /\ normal = <<>>
    /\ seg_result = NoResult
    /\ kept_normal = NoReturn
    /\ ret_anomalies = NoReturn
    /\ ret_normal = NoReturn
    /\ raised = "none"
    /\ file_path = DefaultPath
    /\ seg_list = <<>>
    /\ NoFolder
    /\ NoCall

\* _get_anomaly_normal_segments()
Segmentation ==
    /\ seg_result.status = "none"
    /\ seg_result' = GetAnomalyNormalSegments(sgArtefacts, globalArtefacts)
    /\ raised' = seg_result'.status
    /\ UNCHANGED <<index, all_data, sgArtefacts, globalArtefacts, matching,
                   matching_multiplier, skip_empty, data_cache, anomalies,
                   normal, kept_normal, ret_anomalies, ret_normal>>
    /\ UNCHANGED <<file_path, seg_list, folderVars, callVars>>

\* line 259 of _extract_matching, on the lists the segmenter returned
MatchingPolicy ==
    /\ seg_result.status = "ok"
    /\ kept_normal.status = "none"
    /\ kept_normal' = [status |-> "ok",
                       value |-> MatchingSlice(seg_result.anomalous,
                                     seg_result.normal, matching_multiplier)]
    /\ UNCHANGED <<index, all_data, sgArtefacts, globalArtefacts, matching,
                   matching_multiplier, skip_empty, data_cache, anomalies,
                   normal, seg_result, ret_anomalies, ret_normal, raised>>
    /\ UNCHANGED <<file_path, seg_list, folderVars, callVars>>

NextSeg == Segmentation \/ MatchingPolicy

SpecSeg == InitSeg /\ [][NextSeg]_vars

---------------------------------------------------------------------------
(* Sample values: float64 *)

Finite(x) == [kind |-> "finite", v |-> x]

NaN == [kind |-> "nan", v |-> 0]

PosInf == [kind |-> "inf", v |-> 1]

NegInf == [kind |-> "inf", v |-> -1]

\* the largest (v = 1) and the most negative (v = -1) finite float64
FloatMax == [kind |-> "float_max", v |-> 1]

FloatMin == [kind |-> "float_max", v |-> -1]

IsFinite(x) == x.kind \in {"finite", "float_max"}

\* a variant of NanToNumValue that leaves infinities in place
NanToNumValueNanOnly(x) ==
    IF x.kind = "nan" THEN Finite(NAN_SENTINEL) ELSE x

\* np.nan_to_num(x, nan=-99999) on one value: posinf and neginf keep their
\* defaults, the largest and the most negative finite float
NanToNumValue(x) ==
    IF x.kind = "nan" THEN Finite(NAN_SENTINEL)
    ELSE IF x.kind = "inf" THEN (IF x.v > 0 THEN FloatMax ELSE FloatMin)
    ELSE x

NanToNum(xs) == [i \in 1..Len(xs) |-> NanToNumValue(xs[i])]

---------------------------------------------------------------------------
(* Signal *)

\* line 83: (1_000_000 / frequency).astype(np.int64), frequency in mHz
Interval(frequency) == TruncDiv(MICROS * 1000, frequency)

\* self._intervals[0]
FirstInterval == Interval(index[1].frequency)

\* the position in index of Python's index i (negative i counts from the end)
PyAt(i) == IF i < 0 THEN Len(index) + i + 1 ELSE i + 1

\* np.searchsorted(self._start_times, t, side="right"), t = num/den
SearchSortedRight(num, den) ==
    Cardinality({i \in 1..Len(index) : index[i].starttime * den <= num})

\* np.searchsorted(self._start_times, t, side="left"), t = num/den
SearchSortedLeft(num, den) ==
    Cardinality({i \in 1..Len(index) : index[i].starttime * den < num})

\* lines 125-127: the cache key of index entry c
DataRangeEnd(c) == c.starttime + c.length * Interval(c.frequency)

InCache(cache, data_range_start, data_range_end) ==
    \E k \in 1..Len(cache) :
        /\ cache[k].data_start = data_range_start
        /\ cache[k].data_end = data_range_end

\* a variant of FetchChunks that fetches every candidate chunk, cached or not
RECURSIVE FetchChunksAlways(_, _, _)
FetchChunksAlways(cache, i, end_idx) ==
    IF i >= end_idx THEN cache
    ELSE LET c == index[PyAt(i)]
         IN  FetchChunksAlways(
                 Append(cache,
                        [data_start |-> c.starttime,
                         data_end |-> DataRangeEnd(c),
                         data |-> SubSeq(all_data, c.startidx + 1,
                                         c.startidx + c.length)]),
                 i + 1, end_idx)

\* lines 124-133: for idx in range(i, end_idx)
RECURSIVE FetchChunks(_, _, _)
FetchChunks(cache, i, end_idx) ==
    IF i >= end_idx THEN cache
    ELSE LET c == index[PyAt(i)]
             data_range_start == c.starttime
             data_range_end == DataRangeEnd(c)
         IN  IF InCache(cache, data_range_start, data_range_end)
             THEN FetchChunks(cache, i + 1, end_idx)
             ELSE FetchChunks(
                      Append(cache,
                             [data_start |-> data_range_start,
                              data_end |-> data_range_end,
                              data |-> SubSeq(all_data, c.startidx + 1,
                                              c.startidx + c.length)]),
                      i + 1, end_idx)

\* lines 118-135: the loop over the segments from position i; idx is the
\* loop variable of line 124, <<>> while it is unbound
RECURSIVE PrepareDataForSegments(_, _, _, _)
PrepareDataForSegments(segments, i, cache, idx) ==
    IF i > Len(segments)
    THEN [status |-> "ok", cache |-> cache, segments |-> segments]
    ELSE LET segment == segments[i]
             start_idx == SearchSortedRight(segment.start_time, segment.den) - 1
             end_idx == SearchSortedLeft(segment.end_time, segment.den)
             cache2 == FetchChunks(cache, start_idx, end_idx)
             idx2 == IF start_idx < end_idx THEN <<end_idx - 1>> ELSE idx
         IN  IF idx2 = <<>>
             THEN [status |-> "UnboundLocalError", cache |-> cache2,
                   segments |-> segments]
             ELSE PrepareDataForSegments(
                      [segments EXCEPT ![i].frequency =
                           index[PyAt(idx2[1])].frequency],
                      i + 1, cache2, idx2)

\* a variant of SliceOf that takes the chunk from its first sample
SliceOfFromChunkStart(entry, segment) ==
    LET hi == Min(Len(entry.data),
                  TruncDiv(segment.end_time - entry.data_start * segment.den,
                           segment.den * FirstInterval))
    IN  SubSeq(entry.data, 1, hi)

\* lines 151-152: the slice of one cached chunk, with the offsets taken in
\* units of the first chunk's interval
SliceOf(entry, segment) ==
    LET lo == Max(0, TruncDiv(segment.start_time - entry.data_start * segment.den,
                              segment.den * FirstInterval))
        hi == Min(Len(entry.data),
                  TruncDiv(segment.end_time - entry.data_start * segment.den,
                           segment.den * FirstInterval))
    IN  SubSeq(entry.data, lo + 1, hi)

\* line 154: the filter of the comprehension
Overlaps(entry, segment) ==
    /\ entry.data_start * segment.den <= segment.end_time
    /\ entry.data_end * segment.den >= segment.start_time

\* lines 150-155: one slice per cached chunk that passes the filter, in the
\* order of the cache
ResultData(cache, segment) ==
    LET hits == SelectSeq(cache, LAMBDA e : Overlaps(e, segment))
    IN  [k \in 1..Len(hits) |-> SliceOf(hits[k], segment)]

\* a variant of GetDataInRange that never raises EmptySegment
GetDataInRangeNoRaise(cache, segment) ==
    LET result_data == ResultData(cache, segment)
    IN  [status |-> "ok", empty |-> (result_data = <<>>),
         data |-> NanToNum(Concat(result_data))]

\* lines 139-161: get_data_in_range, given the cache
GetDataInRange(cache, segment) ==
    LET result_data == ResultData(cache, segment)
        empty == (result_data = <<>>)
    IN  IF empty /\ ~skip_empty
        THEN [status |-> "EmptySegment", empty |-> TRUE, data |-> <<>>]
        ELSE [status |-> "ok", empty |-> empty,
              data |-> NanToNum(Concat(result_data))]

---------------------------------------------------------------------------
(* SingleFileExtractor: extraction *)

\* lines 268-269: segment.data = get_data_in_range(segment), from position i
RECURSIVE Materialize(_, _, _)
Materialize(segments, i, cache) ==
    IF i > Len(segments) THEN [status |-> "ok", segments |-> segments]
    ELSE LET r == GetDataInRange(cache, segments[i])
         IN  IF r.status # "ok"
             THEN [status |-> r.status,
                   segments |-> [segments EXCEPT ![i].empty = r.empty]]
             ELSE Materialize([segments EXCEPT ![i].empty = r.empty,
                                               ![i].data = r.data],
                              i + 1, cache)

\* lines 268-269, given what prepare_data_for_segments left
ExtractAfterPrepare(prep, mat) ==
    [status |-> mat.status, cache |-> prep.cache, segments |-> mat.segments]

\* lines 266-267, given what prepare_data_for_segments left
ExtractPrepared(prep) ==
    IF prep.status # "ok"
    THEN [status |-> prep.status, cache |-> prep.cache,
          segments |-> prep.segments]
    ELSE ExtractAfterPrepare(prep,
                             Materialize(prep.segments, 1, prep.cache))

\* lines 264-269: _extract_data_for_segments
ExtractDataForSegments(segments, cache) ==
    ExtractPrepared(PrepareDataForSegments(segments, 1, cache, <<>>))

\* the extractor after the anomalous list was handled (ra)
ExtractedBoth(seg, normal_segments, rn, ra) ==
    [status |-> ra.status, cache |-> ra.cache, seg |-> seg,
     kept |-> [status |-> "ok", value |-> normal_segments],
     normal |-> rn.segments, anomalies |-> ra.segments]

\* lines 253-254 and 261-262: the normal list (rn) before the anomalous
\* one; an exception leaves what was assigned before it
ExtractedNormal(seg, normal_segments, rn) ==
    IF rn.status # "ok"
    THEN [status |-> rn.status, cache |-> rn.cache, seg |-> seg,
          kept |-> [status |-> "ok", value |-> normal_segments],
          normal |-> rn.segments, anomalies |-> anomalies]
    ELSE ExtractedBoth(seg, normal_segments, rn,
                       ExtractDataForSegments(seg.anomalous, rn.cache))

\* lines 251 and 258-259, given what the segmenter returned
ExtractSegmented(seg, normal_segments) ==
    IF seg.status # "ok"
    THEN [status |-> seg.status, cache |-> data_cache, seg |-> seg,
          kept |-> kept_normal, normal |-> normal, anomalies |-> anomalies]
    ELSE ExtractedNormal(seg, normal_segments,
                         ExtractDataForSegments(normal_segments, data_cache))

\* line 259, or the whole normal list of _extract_all
NormalSegmentsOf(seg) ==
    IF matching
    THEN MatchingSlice(seg.anomalous, seg.normal, matching_multiplier)
    ELSE seg.normal

ExtractFrom(seg) == ExtractSegmented(seg, NormalSegmentsOf(seg))

\* lines 208-212 and 249-262: _extract
Extract == ExtractFrom(GetAnomalyNormalSegments(sgArtefacts, globalArtefacts))

\* lines 317 and 322: [segment for segment in ... if not segment.empty]
NotEmpty(segments) == SelectSeq(segments, LAMBDA sgm : ~sgm.empty)

Returned(status, segments) ==
    IF status = "ok" THEN [status |-> "ok", value |-> NotEmpty(segments)]
    ELSE [status |-> status, value |-> <<>>]

---------------------------------------------------------------------------
(* Inputs of the extractor *)

\* the frequencies of the index chunks, in mHz: intervals of 10 s and 2.5 s
Frequencies == {100, 400}

\* the first chunk starts at 20 s
FirstChunkStart == 4 * Tick

Chunk(startidx, starttime, length, frequency) ==
    [startidx |-> startidx, starttime |-> starttime, length |-> length,
     frequency |-> frequency]

\* sorted, non-overlapping indexes of one or two chunks; the second chunk
\* follows the first at once or after a gap of one tick
Indexes ==
    LET Firsts == {Chunk(0, FirstChunkStart, n, f) :
                      n \in 1..MaxLen, f \in Frequencies}
    IN  {<<c>> : c \in Firsts}
        \cup {<<c, Chunk(c.length, DataRangeEnd(c) + g * Tick, n, f)>> :
                 c \in Firsts, g \in {0, 1}, n \in 1..MaxLen,
                 f \in Frequencies}

\* the dataset: one value per sample of the index; the values at
\* consecutive offsets run through finite, NaN, +inf, -inf
StoreValue(p) ==
    CASE p % 4 = 0 -> Finite(p)
      [] p % 4 = 1 -> NaN
      [] p % 4 = 2 -> PosInf
      [] OTHER -> NegInf

StoreFor(idx) ==
    LET last == idx[Len(idx)]
    IN  [p \in 1..(last.startidx + last.length) |-> StoreValue(p - 1)]

---------------------------------------------------------------------------
(* One SingleFileExtractor on one file *)

Init ==
    /\ index \in Indexes
    /\ all_data = StoreFor(index)
    /\ sgArtefacts \in SeqsUpTo(Artefacts, MaxSG)
    /\ globalArtefacts \in SeqsUpTo(Artefacts, MaxGL)
    /\ Len(sgArtefacts) + Len(globalArtefacts) <= MaxArtefacts
    /\ matching \in BOOLEAN
    /\ matching_multiplier \in 1..MaxK
    /\ matching = FALSE => matching_multiplier = 1
    /\ skip_empty \in BOOLEAN
    /\ data_cache = <<>>
    /\ anomalies = <<>>
    /\ normal = <<>>
    /\ seg_result = NoResult
    /\ kept_normal = NoReturn
    /\ ret_anomalies = NoReturn
    /\ ret_normal = NoReturn
    /\ raised = "none"
    /\ file_path = DefaultPath
    /\ seg_list = <<>>
    /\ NoFolder
    /\ NoCall

\* what _extract() leaves in the extractor and its Signal
Extracted(e) ==
    /\ data_cache' = e.cache
    /\ anomalies' = e.anomalies
    /\ normal' = e.normal
    /\ seg_result' = e.seg
    /\ kept_normal' = e.kept
    /\ raised' = e.status
    /\ UNCHANGED <<index, all_data, sgArtefacts, globalArtefacts, matching,
                   matching_multiplier, skip_empty, file_path, seg_list,
                   callVars>>

AnomaliesReturned(e) ==
    /\ Extracted(e)
    /\ ret_anomalies' = Returned(e.status, e.anomalies)
    /\ UNCHANGED ret_normal

NormalReturned(e) ==
    /\ Extracted(e)
    /\ ret_normal' = Returned(e.status, e.normal)
    /\ UNCHANGED ret_anomalies

\* get_anomalies()
GetAnomalies == AnomaliesReturned(Extract) /\ UNCHANGED folderVars

\* get_normal()
GetNormal == NormalReturned(Extract) /\ UNCHANGED folderVars

Next == GetAnomalies \/ GetNormal

Spec == Init /\ [][Next]_vars

---------------------------------------------------------------------------
(* Properties of the segmenter and the matching policy (SpecSeg) *)

RECURSIVE SumSeq(_)
SumSeq(s) == IF s = <<>> THEN 0 ELSE Head(s) + SumSeq(Tail(s))

\* the gaps between consecutive artefacts of one source list
Gaps(arts) ==
    [i \in 1..Max(0, Len(arts) - 1) |->
        [from |-> arts[i].end_time, to |-> arts[i + 1].start_time]]

\* the gaps of the SignalGroup list, then those of the Global list
AllGaps == Gaps(sgArtefacts) \o Gaps(globalArtefacts)

GapDuration(g) == g.to - g.from

\* floor(D / w) for D >= 0; nothing is asked of a negative gap
WindowsIn(g) == IF GapDuration(g) >= 0 THEN GapDuration(g) \div WINDOW ELSE 0

\* the positions, in the normal list, of the segments of gap k
GapGroup(k) ==
    LET before == SumSeq([j \in 1..(k - 1) |-> WindowsIn(AllGaps[j])])
    IN  (before + 1)..(before + WindowsIn(AllGaps[k]))

InGap(seg, g) ==
    /\ seg.start_time >= g.from * seg.den
    /\ seg.end_time <= g.to * seg.den

SegOk == seg_result.status = "ok"

\* C1: the matching policy keeps exactly the prefix of the segmenter's
\* normal list of length min(len(N), len(A) * k): never more than
\* len(A) * k segments, in the original order, and all of N when N is
\* not longer than the bound.
C1_MatchingKeepsPrefix ==
    kept_normal.status = "ok" =>
        LET A == seg_result.anomalous
            N == seg_result.normal
            kept == kept_normal.value
            k == matching_multiplier
        IN  /\ Len(kept) <= Len(A) * k
            /\ Len(kept) <= Len(N)
            /\ Len(kept) = Len(A) * k \/ Len(kept) = Len(N)
            /\ \A i \in 1..Len(kept) : kept[i] = N[i]
            /\ Len(N) <= Len(A) * k => kept = N

\* the policy cut a longer normal list down to a non-empty prefix
C1_Witness ==
    /\ kept_normal.status = "ok"
    /\ matching_multiplier >= 1
    /\ Len(seg_result.normal) > Len(kept_normal.value)
    /\ Len(kept_normal.value) >= 1

\* C3: the segmenter emits, for every gap of duration D >= 0 between two
\* consecutive artefacts of one list, exactly floor(D / 10 s) normal
\* segments, all lying in that gap; a gap shorter than 10 s emits none.
C3_FloorWindowsPerGap ==
    SegOk =>
        /\ Len(seg_result.normal) =
               SumSeq([k \in 1..Len(AllGaps) |-> WindowsIn(AllGaps[k])])
        /\ \A k \in 1..Len(AllGaps) :
               \A j \in GapGroup(k) :
                   /\ j <= Len(seg_result.normal)
                   /\ InGap(seg_result.normal[j], AllGaps[k])

\* a gap of at least two windows and a gap shorter than one window
C3_Witness ==
    /\ SegOk
    /\ \E k \in 1..Len(AllGaps) :
           /\ GapDuration(AllGaps[k]) >= 2 * WINDOW
           /\ GapDuration(AllGaps[k]) % WINDOW # 0
    /\ Len(seg_result.normal) >= 2

\* C4 as stated: no normal segment is longer than 10 s, and the last
\* segment of a gap ends at gap_start + floor(D / w) * w.
C4_Original ==
    SegOk =>
        /\ \A j \in 1..Len(seg_result.normal) :
               seg_result.normal[j].end_time - seg_result.normal[j].start_time
                   <= WINDOW * seg_result.normal[j].den
        /\ \A k \in 1..Len(AllGaps) :
               \A j \in GapGroup(k) :
                   seg_result.normal[j].end_time <=
                       (AllGaps[k].from + WindowsIn(AllGaps[k]) * WINDOW)
                           * seg_result.normal[j].den

\* C4 amended: every normal segment of a gap of duration D lasts
\* D / floor(D / w), which is at least w and less than 2w; the remainder
\* D mod w is spread over the segments of the gap, whose last segment ends
\* at the next artefact's start_time.
C4_SegmentsSpanGap ==
    SegOk =>
        \A k \in 1..Len(AllGaps) :
            LET g == AllGaps[k]
                n == WindowsIn(g)
                grp == GapGroup(k)
            IN  \A j \in grp :
                    LET seg == seg_result.normal[j]
                        dur == seg.end_time - seg.start_time
                    IN  /\ dur * n = GapDuration(g) * seg.den
                        /\ dur >= WINDOW * seg.den
                        /\ dur < 2 * WINDOW * seg.den
                        /\ (j + 1 \notin grp) =>
                               seg.end_time = g.to * seg.den

\* a gap that is not a multiple of the window and holds normal segments
C4_Witness ==
    /\ SegOk
    /\ \E k \in 1..Len(AllGaps) :
           /\ GapDuration(AllGaps[k]) % WINDOW # 0
           /\ WindowsIn(AllGaps[k]) >= 1
           /\ \E j \in GapGroup(k) :
                  seg_result.normal[j].end_time -
                      seg_result.normal[j].start_time
                          > WINDOW * seg_result.normal[j].den

\* C5: every normal segment lies inside a gap between two consecutive
\* artefacts of the same source list; none lies before the first or after
\* the last artefact of a list, or between the last SignalGroup artefact
\* and the first Global artefact.
C5_NormalInsideSameListGap ==
    SegOk =>
        \A j \in 1..Len(seg_result.normal) :
            \E k \in 1..Len(AllGaps) :
                InGap(seg_result.normal[j], AllGaps[k])

\* both lists hold artefacts, normal segments exist, and the stretch from
\* the last SignalGroup artefact to the first Global one is a window long
C5_Witness ==
    /\ SegOk
    /\ Len(sgArtefacts) >= 2
    /\ Len(globalArtefacts) >= 1
    /\ Len(seg_result.normal) >= 1
    /\ globalArtefacts[1].start_time
           - sgArtefacts[Len(sgArtefacts)].end_time >= WINDOW

\* the scenario of C6: one Global artefact [T0, T0+5s] and one SignalGroup
\* artefact [T0+20s, T0+25s]
C6_Scenario ==
    /\ Len(globalArtefacts) = 1
    /\ Len(sgArtefacts) = 1
    /\ globalArtefacts[1].end_time = globalArtefacts[1].start_time + Tick
    /\ sgArtefacts[1].start_time = globalArtefacts[1].start_time + 4 * Tick
    /\ sgArtefacts[1].end_time = globalArtefacts[1].start_time + 5 * Tick

\* C6 as stated: in the scenario the segmenter yields 2 anomalous segments
\* and exactly one normal segment, a full 10 s window inside the stretch
\* (T0+5s, T0+20s).
C6_Original ==
    (C6_Scenario /\ seg_result.status # "none") =>
        /\ SegOk
        /\ Len(seg_result.anomalous) = 2
        /\ Len(seg_result.normal) = 1
        /\ seg_result.normal[1].end_time - seg_result.normal[1].start_time
               = WINDOW * seg_result.normal[1].den

\* C6 amended: in the scenario the segmenter yields 2 anomalous segments,
\* the SignalGroup artefact first and the Global artefact second, and no
\* normal segment: the two artefacts are in different source lists.
C6_ScenarioNoNormal ==
    (C6_Scenario /\ seg_result.status # "none") =>
        /\ SegOk
        /\ Len(seg_result.anomalous) = 2
        /\ seg_result.anomalous[1].start_time = sgArtefacts[1].start_time
        /\ seg_result.anomalous[2].start_time = globalArtefacts[1].start_time
        /\ seg_result.normal = <<>>

C6_Witness == C6_Scenario /\ SegOk

\* C7: the anomalous list holds exactly one segment per artefact, with the
\* artefact's start_time and end_time: the SignalGroup artefacts in
\* document order, then the Global artefacts in document order.
C7_OneAnomalyPerArtefact ==
    SegOk =>
        LET arts == sgArtefacts \o globalArtefacts
        IN  /\ Len(seg_result.anomalous) = Len(arts)
            /\ \A i \in 1..Len(arts) :
                   /\ seg_result.anomalous[i].start_time = arts[i].start_time
                   /\ seg_result.anomalous[i].end_time = arts[i].end_time
                   /\ seg_result.anomalous[i].den = 1

\* the document order is not the time order: the SignalGroup list is
\* descending and the Global artefact precedes both
C7_Witness ==
    /\ SegOk
    /\ Len(sgArtefacts) = 2
    /\ Len(globalArtefacts) = 1
    /\ sgArtefacts[1].start_time > sgArtefacts[2].start_time
    /\ globalArtefacts[1].start_time < sgArtefacts[2].start_time


---------------------------------------------------------------------------
(* Properties of the extractor (Spec) *)

\* the latest _extract() returned, so every segment of both lists went
\* through get_data_in_range
Materialised == raised = "ok"

\* the segments the extractor holds
HeldSegments ==
    {normal[i] : i \in 1..Len(normal)}
        \cup {anomalies[i] : i \in 1..Len(anomalies)}

\* the cache entry of index chunk c
ChunkEntry(c) ==
    [data_start |-> c.starttime, data_end |-> DataRangeEnd(c),
     data |-> SubSeq(all_data, c.startidx + 1, c.startidx + c.length)]

\* chunk_start <= start < end <= chunk_end
InsideChunk(segment, c) ==
    /\ c.starttime * segment.den <= segment.start_time
    /\ segment.start_time < segment.end_time
    /\ segment.end_time <= DataRangeEnd(c) * segment.den

\* Python's round(a / b) for a >= 0, b > 0: halves go to the even neighbour
Round(a, b) ==
    LET q == a \div b
        r == a % b
    IN  IF 2 * r < b THEN q
        ELSE IF 2 * r > b THEN q + 1
        ELSE IF q % 2 = 0 THEN q ELSE q + 1

\* round((end - start) / 1_000_000 * frequency) with the chunk's frequency
RoundedCount(segment, c) ==
    Round(((segment.end_time - segment.start_time) \div 1000) * c.frequency,
          segment.den * MICROS)

\* every chunk has the sample interval of the first one
UniformIndex ==
    \A k \in 1..Len(index) : Interval(index[k].frequency) = FirstInterval

\* floor((end - chunk_start) / i) - floor((start - chunk_start) / i)
GridCount(segment, c) ==
    LET unit == segment.den * Interval(c.frequency)
        from == segment.start_time - c.starttime * segment.den
        to == segment.end_time - c.starttime * segment.den
    IN  (to \div unit) - (from \div unit)

\* the duration is a whole number of sample intervals of chunk c
WholeIntervals(segment, c) ==
    (segment.end_time - segment.start_time)
        % (segment.den * Interval(c.frequency)) = 0

\* start lies on the sample grid of chunk c
OnGrid(segment, c) ==
    (segment.start_time - c.starttime * segment.den)
        % (segment.den * Interval(c.frequency)) = 0

\* C2 as stated: with matching on, get_normal() returns at most
\* matching_multiplier times as many segments as get_anomalies() returns on
\* the same extractor.
C2_Original ==
    (matching /\ ret_normal.status = "ok" /\ ret_anomalies.status = "ok")
        => Len(ret_normal.value)
               <= Len(ret_anomalies.value) * matching_multiplier

SlicesInTimeOrder(segment) ==
    Concat([k \in 1..Len(index) |->
               IF Overlaps(ChunkEntry(index[k]), segment)
               THEN SliceOf(ChunkEntry(index[k]), segment)
               ELSE <<>>])

\* the range of the segment meets two chunks that a gap separates
SpansGap(segment) ==
    \E k, l \in 1..Len(index) :
        /\ DataRangeEnd(index[k]) < index[l].starttime
        /\ index[k].starttime * segment.den < segment.end_time
        /\ DataRangeEnd(index[k]) * segment.den > segment.start_time
        /\ index[l].starttime * segment.den < segment.end_time
        /\ DataRangeEnd(index[l]) * segment.den > segment.start_time

\* C9 as stated: the data of a segment that spans chunks separated by gaps
\* is the per-chunk slices concatenated in ascending chunk start_time
\* order, whatever was materialised before.
C9_Original ==
    Materialised =>
        \A segment \in HeldSegments :
            SpansGap(segment)
                => segment.data = NanToNum(SlicesInTimeOrder(segment))

\* the values get_data_in_range concatenated for anomalous segment i, before
\* nan_to_num; the anomalous list is handled last, so the cache is the one
\* the call saw
RawData(i) == Concat(ResultData(data_cache, anomalies[i]))

\* every non-finite value becomes the sentinel, finite values pass
SentinelForNonFinite(xs) ==
    [j \in 1..Len(xs) |->
        IF xs[j].kind = "finite" THEN xs[j] ELSE Finite(NAN_SENTINEL)]

\* C10 as stated: each non-finite value of the backing store is replaced by
\* -99999 and finite values pass unchanged.
C10_Original ==
    Materialised =>
        \A i \in 1..Len(anomalies) :
            anomalies[i].data = SentinelForNonFinite(RawData(i))

\* C10, amended: every returned value is finite; NaN becomes -99999, +inf
\* the largest finite float, -inf the most negative finite float, and a
\* finite value passes unchanged.
C10_NanToNumFinite ==
    Materialised =>
        \A i \in 1..Len(anomalies) :
            LET raw == RawData(i)
                data == anomalies[i].data
            IN  /\ Len(data) = Len(raw)
                /\ \A j \in 1..Len(raw) :
                       /\ IsFinite(data[j])
                       /\ raw[j] = NaN => data[j] = Finite(NAN_SENTINEL)
                       /\ raw[j] = PosInf => data[j] = FloatMax
                       /\ raw[j] = NegInf => data[j] = FloatMin
                       /\ raw[j].kind = "finite" => data[j] = raw[j]

\* anomalous segments were read over +inf and over -inf, and carry the
\* largest and the most negative finite float in their place
C10_Witness ==
    /\ Materialised
    /\ \E i \in 1..Len(anomalies) : \E j \in 1..Len(anomalies[i].data) :
           RawData(i)[j] = PosInf /\ anomalies[i].data[j] = FloatMax
    /\ \E i \in 1..Len(anomalies) : \E j \in 1..Len(anomalies[i].data) :
           RawData(i)[j] = NegInf /\ anomalies[i].data[j] = FloatMin

\* no chunk of the index meets the range of the segment, not even at a
\* boundary
NoChunkMeets(segment) ==
    \A k \in 1..Len(index) : ~Overlaps(ChunkEntry(index[k]), segment)

\* the segments the latest _extract() had to materialise
ToMaterialise ==
    {kept_normal.value[i] : i \in 1..Len(kept_normal.value)}
        \cup {seg_result.anomalous[i] : i \in 1..Len(seg_result.anomalous)}

\* the statuses of a getter that returned no list because of EmptySegment,
\* or was not called
NoListReturned == {"none", "EmptySegment"}

\* C11: a segment that resolves to no chunk is, with skip_empty=True,
\* flagged empty without an error and left out of the lists the getters
\* return; with skip_empty=False the extraction raises EmptySegment and no
\* getter returns a list.
C11_EmptySegmentPolicy ==
    /\ skip_empty =>
           /\ raised # "EmptySegment"
           /\ seg_result.status = "ok" => raised = "ok"
           /\ Materialised =>
                  \A segment \in HeldSegments :
                      NoChunkMeets(segment)
                          => segment.empty /\ segment.data = <<>>
           /\ \A r \in {ret_anomalies, ret_normal} :
                  \A i \in 1..Len(r.value) : ~NoChunkMeets(r.value[i])
    /\ (/\ ~skip_empty
        /\ seg_result.status = "ok"
        /\ \E segment \in ToMaterialise : NoChunkMeets(segment))
           => /\ raised = "EmptySegment"
              /\ ret_anomalies.status \in NoListReturned
              /\ ret_normal.status \in NoListReturned
              /\ ret_anomalies.value = <<>>
              /\ ret_normal.value = <<>>

\* with skip_empty=False both getters were called on a file with a segment
\* that meets no chunk, and both raised EmptySegment
C11_Witness ==
    /\ ~skip_empty
    /\ \E segment \in ToMaterialise : NoChunkMeets(segment)
    /\ ret_anomalies.status = "EmptySegment"
    /\ ret_normal.status = "EmptySegment"

\* with skip_empty=True a getter returned a list that leaves out a segment
\* meeting no chunk
C11_SkipReached ==
    /\ skip_empty
    /\ ret_anomalies.status = "ok"
    /\ Len(ret_anomalies.value) >= 1
    /\ \E i \in 1..Len(anomalies) : NoChunkMeets(anomalies[i])

\* chunk c and the range of the segment share more than a boundary point
StrictlyOverlaps(c, segment) ==
    /\ c.starttime * segment.den < segment.end_time
    /\ DataRangeEnd(c) * segment.den > segment.start_time

\* C12 as stated: after materialisation a segment is flagged empty exactly
\* when no index chunk overlaps its range; a segment that only touches a
\* chunk at a boundary is flagged empty, and a segment with a sample never.
C12_Original ==
    Materialised =>
        \A segment \in HeldSegments :
            /\ segment.empty <=>
                   \A k \in 1..Len(index) :
                       ~StrictlyOverlaps(index[k], segment)
            /\ Len(segment.data) >= 1 => ~segment.empty

---------------------------------------------------------------------------
(* The patient identifier of a file (loader.py lines 236-238) *)

\* A path is a sequence of symbols: the literal "TBI_", the word tokens "a"
\* and "b", the underscore, and the separator "/", which is no word
\* character.  The suffix ".hdf5" that ends every path is left out; its dot
\* ends a run of word characters like the end of the sequence does.
WordSymbols == {"TBI_", "a", "b", "_"}

PathSymbols == WordSymbols \cup {"/"}

\* the positions where TBI_(\w+) matches: the literal and one word
\* character at least
MatchesAt(path) ==
    {i \in 1..Len(path) :
        /\ path[i] = "TBI_"
        /\ i < Len(path)
        /\ path[i + 1] \in WordSymbols}

\* the end of the longest run of word characters that starts at position j
RECURSIVE RunEnd(_, _)
RunEnd(path, j) ==
    IF j < Len(path) /\ path[j + 1] \in WordSymbols
    THEN RunEnd(path, j + 1)
    ELSE j

\* group.split('_')[0]: the characters of the run before its first
\* underscore; the literal TBI_ ends with an underscore itself
RECURSIVE FirstToken(_)
FirstToken(run) ==
    IF run = <<>> \/ Head(run) = "_" THEN <<>>
    ELSE IF Head(run) = "TBI_" THEN <<"TBI">>
    ELSE <<Head(run)>> \o FirstToken(Tail(run))

\* the patient id of a match at position i
PatientAt(path, i) == FirstToken(SubSeq(path, i + 1, RunEnd(path, i + 1)))

\* line 236: re.search(r"TBI_(\w+)", from_file).group(1).split('_')[0];
\* re.search takes the leftmost match
SearchPatient(path) ==
    IF MatchesAt(path) = {} THEN [found |-> FALSE, patient |-> <<>>]
    ELSE [found |-> TRUE,
          patient |-> PatientAt(path,
                          CHOOSE i \in MatchesAt(path) :
                              \A j \in MatchesAt(path) : i <= j)]

\* line 238: Segment(..., file=from_file, patient_id=patient, ...)
PatientSegment(s, file, patient) ==
    [start_time |-> s.start_time, end_time |-> s.end_time, den |-> s.den,
     empty |-> s.empty, frequency |-> s.frequency, data |-> s.data,
     file |-> file, patient_id |-> patient]

PatientSegmentList(list, file, patient) ==
    [k \in 1..Len(list) |-> PatientSegment(list[k], file, patient)]

\* lines 218-247 with the patient id: line 236 is evaluated for the first
\* Artefact element, before any gap is sliced, and not at all when there is
\* no Artefact element
SegmentFile(path, sg, gl) ==
    LET found == SearchPatient(path)
        seg == GetAnomalyNormalSegments(sg, gl)
    IN  IF Len(sg) + Len(gl) = 0
        THEN [status |-> "ok", anomalous |-> <<>>, normal |-> <<>>]
        ELSE IF ~found.found
        THEN [status |-> "AttributeError", anomalous |-> <<>>,
              normal |-> <<>>]
        ELSE IF seg.status # "ok"
        THEN [status |-> seg.status, anomalous |-> <<>>, normal |-> <<>>]
        ELSE [status |-> "ok",
              anomalous |-> PatientSegmentList(seg.anomalous, path,
                                               found.patient),
              normal |-> PatientSegmentList(seg.normal, path,
                                            found.patient)]

\* the paths of up to MaxPath symbols
Paths == SeqsUpTo(PathSymbols, MaxPath) \ {<<>>}

\* annotation files with no artefact, with one, and with two and a gap of
\* one window between them
PatientAnnotations ==
    {<<>>,
     <<[start_time |-> Tick, end_time |-> 2 * Tick]>>,
     <<[start_time |-> Tick, end_time |-> 2 * Tick],
       [start_time |-> 4 * Tick, end_time |-> 5 * Tick]>>}

InitPatient ==
    /\ index = <<>>
    /\ all_data = <<>>
    /\ sgArtefacts \in PatientAnnotations
    /\ globalArtefacts \in {<<>>, <<[start_time |-> Tick, end_time |-> 2 * Tick]>>}
    /\ matching = FALSE
    /\ matching_multiplier = 1
    /\ skip_empty = TRUE
    /\ data_cache = <<>>
    /\ anomalies = <<>>
    /\ normal = <<>>
    /\ seg_result = NoResult
    /\ kept_normal = NoReturn
    /\ ret_anomalies = NoReturn
    /\ ret_normal = NoReturn
    /\ raised = "none"
    /\ file_path \in Paths
    /\ seg_list = <<>>
    /\ NoFolder
    /\ NoCall

\* _get_anomaly_normal_segments() on the file at file_path
SegmentationOfFile ==
    /\ seg_result.status = "none"
    /\ seg_result' = SegmentFile(file_path, sgArtefacts, globalArtefacts)
    /\ raised' = seg_result'.status
    /\ UNCHANGED <<index, all_data, sgArtefacts, globalArtefacts, data_cache,
                   anomalies, normal, kept_normal, ret_anomalies, ret_normal,
                   file_path, seg_list, optionVars, folderVars, callVars>>

NextPatient == SegmentationOfFile

SpecPatient == InitPatient /\ [][NextPatient]_vars

\* C19 as stated: segmenting a file whose path lacks the pattern fails with
\* a pattern-mismatch error for every annotation content, one with no
\* artefact included; with the pattern every segment carries the token
\* after "TBI_" up to the next underscore.
C19_Original ==
    seg_result.status # "none" =>
        IF SearchPatient(file_path).found
        THEN /\ seg_result.status = "ok"
             /\ \A list \in {seg_result.anomalous, seg_result.normal} :
                    \A k \in 1..Len(list) :
                        list[k].patient_id = SearchPatient(file_path).patient
        ELSE seg_result.status = "AttributeError"

---------------------------------------------------------------------------
(* FolderExtractor: extract_all and extract_merged (loader.py 373-461) *)

\* the directory the walk finds the files in
Root == <<"/">>

\* line 424: patient_pattern.match(hdf5_file), anchored at the start of the
\* file name
MatchPatient(name) == 1 \in MatchesAt(name)

\* a signal file of the folder: its name without the suffix, whether an
\* annotation file of the same base name lies beside it, what goes wrong
\* when it is opened, and its index and annotation
SignalFile(name, has_artf, fault, idx, sg) ==
    [name |-> name, has_artf |-> has_artf, fault |-> fault, index |-> idx,
     sg |-> sg]

\* one chunk of one sample that starts at 20 s
OneChunk(frequency) == <<Chunk(0, FirstChunkStart, 1, frequency)>>

\* annotations: an artefact at the start of the chunk, two artefacts with a
\* gap of one window, an artefact that ends before the chunk, no artefact
FolderAnnotations ==
    {<<[start_time |-> 4 * Tick, end_time |-> 5 * Tick]>>,
     <<[start_time |-> 4 * Tick, end_time |-> 5 * Tick],
       [start_time |-> 7 * Tick, end_time |-> 8 * Tick]>>,
     <<[start_time |-> Tick, end_time |-> 2 * Tick]>>,
     <<>>}

\* file names: two patients, a name without the pattern, and a name that
\* holds the pattern but does not start with it
FolderNames ==
    {<<"TBI_", "a">>, <<"TBI_", "b">>, <<"a">>, <<"a", "TBI_", "b">>}

\* two chunks of different frequencies: two samples from 20 s at 0.4 Hz,
\* then, one tick after their end, one sample at 0.1 Hz
MixedChunks ==
    LET c == Chunk(0, FirstChunkStart, 2, 400)
    IN  <<c, Chunk(c.length, DataRangeEnd(c) + Tick, 1, 100)>>

FolderFiles ==
    {SignalFile(n, TRUE, "none", OneChunk(f), sg) :
        n \in FolderNames, f \in Frequencies, sg \in FolderAnnotations}
    \cup {SignalFile(<<"TBI_", "a">>, TRUE, "none", MixedChunks, sg) :
             sg \in FolderAnnotations}
    \cup {SignalFile(<<"TBI_", "a">>, FALSE, "none", OneChunk(100), <<>>),
          SignalFile(<<"TBI_", "a">>, TRUE, "KeyError", <<>>, <<>>),
          SignalFile(<<"TBI_", "a">>, TRUE, "ParseError", OneChunk(100),
                     <<>>)}

InitFolder ==
    /\ index = <<>>
    /\ all_data = <<>>
    /\ sgArtefacts = <<>>
    /\ globalArtefacts = <<>>
    /\ matching = FALSE
    /\ matching_multiplier = 1
    /\ skip_empty \in BOOLEAN
    /\ data_cache = <<>>
    /\ anomalies = <<>>
    /\ normal = <<>>
    /\ seg_result = NoResult
    /\ kept_normal = NoReturn
    /\ ret_anomalies = NoReturn
    /\ ret_normal = NoReturn
    /\ raised = "none"
    /\ file_path = <<>>
    /\ seg_list = <<>>
    /\ folder \in SeqsUpTo(FolderFiles, MaxFiles)
    /\ merged \in BOOLEAN
    /\ pos = 1
    /\ pc = "walk"
    /\ folder_anomalies = <<>>
    /\ folder_normal = <<>>
    /\ patient_data_artf = <<>>
    /\ patient_data_normal = <<>>
    /\ frequencies = {}
    /\ per_file = <<>>
    /\ folder_result = [status |-> "none"]
    /\ NoCall

\* the aggregation ends with an exception
Raise(status, freqs) ==
    [status |-> status, anomalies |-> <<>>, normal |-> <<>>,
     frequencies |-> freqs]

\* a variant of Aggregated that hands the lists out whatever the
\* frequencies are
AggregatedUnchecked(freqs, a, n) ==
    [status |-> "ok", anomalies |-> a, normal |-> n, frequencies |-> {}]

\* lines 402-405 and 458-461: the check of the frequencies, then the return
Aggregated(freqs, a, n) ==
    IF Cardinality(freqs) > 1
    THEN Raise("FrequencyMismatchError", freqs)
    ELSE [status |-> "ok", anomalies |-> a, normal |-> n,
          frequencies |-> {}]

\* a variant of Extend that puts the new segments first
ExtendFront(list, more) == more \o list

\* list.extend
Extend(list, more) == list \o more

\* lines 447-453: the list of a patient in a dict kept in insertion order
ExtendPatient(dict, patient, more) ==
    IF \E k \in 1..Len(dict) : dict[k].patient = patient
    THEN [k \in 1..Len(dict) |->
             IF dict[k].patient = patient
             THEN [dict[k] EXCEPT !.list = Extend(dict[k].list, more)]
             ELSE dict[k]]
    ELSE Append(dict, [patient |-> patient, list |-> more])

\* lines 301-307: get_frequency
GetFrequency ==
    IF anomalies # <<>> THEN anomalies[1].frequency
    ELSE IF normal # <<>> THEN normal[1].frequency
    ELSE 0

\* _extract() of the extractor of the file at pos
FileExtract ==
    ExtractFrom(IF folder[pos].fault = "ParseError"
                THEN [status |-> "ParseError", anomalous |-> <<>>,
                      normal |-> <<>>]
                ELSE SegmentFile(file_path, sgArtefacts, globalArtefacts))

\* lines 384-393 and 423-438: the next file of the walk; a file without an
\* annotation file (and, in extract_merged, a file whose name does not
\* start with the pattern) is passed over, any other gets an extractor
FolderOpen ==
    /\ pc = "walk"
    /\ pos <= Len(folder)
    /\ LET f == folder[pos]
       IN  IF (merged /\ ~MatchPatient(f.name)) \/ ~f.has_artf
           THEN /\ pos' = pos + 1
                /\ UNCHANGED <<fileVars, pc, folder_result>>
           ELSE IF f.fault = "KeyError"
           THEN /\ folder_result' = Raise("KeyError", {})
                /\ pc' = "done"
                /\ UNCHANGED <<fileVars, pos>>
           ELSE /\ index' = f.index
                /\ all_data' = StoreFor(f.index)
                /\ sgArtefacts' = f.sg
                /\ globalArtefacts' = <<>>
                /\ data_cache' = <<>>
                /\ anomalies' = <<>>
                /\ normal' = <<>>
                /\ seg_result' = NoResult
                /\ kept_normal' = NoReturn
                /\ ret_anomalies' = NoReturn
                /\ ret_normal' = NoReturn
                /\ raised' = "none"
                /\ file_path' = Root \o f.name
                /\ pc' = "get_anomalies"
                /\ UNCHANGED <<pos, folder_result>>
    /\ UNCHANGED <<folder, merged, folder_anomalies, folder_normal,
                   patient_data_artf, patient_data_normal, frequencies,
                   per_file, optionVars, callVars, seg_list>>

\* an exception of the extractor leaves the aggregation
FolderRaised(e) ==
    /\ folder_result' = Raise(e.status, {})
    /\ pc' = "done"
    /\ UNCHANGED <<folder_anomalies, folder_normal>>

\* lines 395 and 440: extractor.get_anomalies()
FolderAnomalies(e) ==
    /\ pc = "get_anomalies"
    /\ AnomaliesReturned(e)
    /\ IF e.status # "ok" THEN FolderRaised(e)
       ELSE /\ folder_anomalies' =
                   IF merged THEN folder_anomalies
                   ELSE Extend(folder_anomalies, ret_anomalies'.value)
            /\ pc' = "get_normal"
            /\ UNCHANGED <<folder_normal, folder_result>>
    /\ UNCHANGED <<folder, merged, pos, patient_data_artf,
                   patient_data_normal, frequencies, per_file>>

\* lines 396 and 441: extractor.get_normal()
FolderNormal(e) ==
    /\ pc = "get_normal"
    /\ NormalReturned(e)
    /\ IF e.status # "ok" THEN FolderRaised(e)
       ELSE /\ folder_normal' =
                   IF merged THEN folder_normal
                   ELSE Extend(folder_normal, ret_normal'.value)
            /\ pc' = "get_frequency"
            /\ UNCHANGED <<folder_anomalies, folder_result>>
    /\ UNCHANGED <<folder, merged, pos, patient_data_artf,
                   patient_data_normal, frequencies, per_file>>

FolderGetAnomalies == FolderAnomalies(FileExtract)

FolderGetNormal == FolderNormal(FileExtract)

\* lines 398-400 and 443-453: the frequency of the file; extract_merged
\* files the two lists under the patient of the file name
FolderGetFrequency ==
    /\ pc = "get_frequency"
    /\ LET frequency == GetFrequency
           patient_id == PatientAt(folder[pos].name, 1)
       IN  /\ frequencies' = IF frequency # 0
                             THEN frequencies \cup {frequency}
                             ELSE frequencies
           /\ patient_data_artf' =
                  IF merged
                  THEN ExtendPatient(patient_data_artf, patient_id,
                                     ret_anomalies.value)
                  ELSE patient_data_artf
           /\ patient_data_normal' =
                  IF merged
                  THEN ExtendPatient(patient_data_normal, patient_id,
                                     ret_normal.value)
                  ELSE patient_data_normal
           /\ per_file' = Append(per_file,
                                 [pos |-> pos,
                                  anomalies |-> ret_anomalies.value,
                                  normal |-> ret_normal.value,
                                  frequency |-> frequency])
    /\ pos' = pos + 1
    /\ pc' = "walk"
    /\ UNCHANGED <<fileVars, folder, merged, folder_anomalies, folder_normal,
                   folder_result, optionVars, callVars, seg_list>>

\* lines 402-405 and 458-461, once the walk is over
FolderFinish ==
    /\ pc = "walk"
    /\ pos > Len(folder)
    /\ folder_result' =
           IF merged
           THEN Aggregated(frequencies, patient_data_artf,
                           patient_data_normal)
           ELSE Aggregated(frequencies, folder_anomalies, folder_normal)
    /\ pc' = "done"
    /\ UNCHANGED <<fileVars, folder, merged, pos, folder_anomalies,
                   folder_normal, patient_data_artf, patient_data_normal,
                   frequencies, per_file, optionVars, callVars, seg_list>>

NextFolder ==
    \/ FolderOpen
    \/ FolderGetAnomalies
    \/ FolderGetNormal
    \/ FolderGetFrequency
    \/ FolderFinish

SpecFolder == InitFolder /\ [][NextFolder]_vars

---------------------------------------------------------------------------
(* Properties of the folder aggregation (SpecFolder) *)

\* the non-zero frequencies the processed files reported
ReportedFrequencies ==
    {per_file[i].frequency : i \in 1..Len(per_file)} \ {0}

\* the walk went past the last file
AllProcessed == pos = Len(folder) + 1

\* the aggregation holds segments of some file
Accumulated ==
    IF merged THEN patient_data_artf # <<>> \/ patient_data_normal # <<>>
    ELSE folder_anomalies # <<>> \/ folder_normal # <<>>

\* C13: extract_all and extract_merged over files that report two or more
\* distinct frequencies raise FrequencyMismatchError with the set of the
\* reported values; the check runs after the last file, and the caller
\* gets no anomaly or normal list.
C13_FrequencyMismatchRaised ==
    /\ folder_result.status = "FrequencyMismatchError" =>
           /\ pc = "done"
           /\ AllProcessed
           /\ Cardinality(ReportedFrequencies) >= 2
           /\ folder_result.frequencies = ReportedFrequencies
           /\ folder_result.anomalies = <<>>
           /\ folder_result.normal = <<>>
    /\ (pc = "done" /\ AllProcessed
            /\ Cardinality(ReportedFrequencies) >= 2)
           => folder_result.status = "FrequencyMismatchError"
    /\ (pc # "done" /\ Cardinality(ReportedFrequencies) >= 2)
           => folder_result.status = "none"

\* two files reported different frequencies, segments had been accumulated,
\* and the run raised
C13_Witness ==
    /\ folder_result.status = "FrequencyMismatchError"
    /\ Len(per_file) = 2
    /\ per_file[1].frequency # per_file[2].frequency
    /\ Accumulated

\* the files of the folder that have an annotation file beside them
WithAnnotation == {p \in 1..Len(folder) : folder[p].has_artf}

\* C14: when the files agree on the frequency, extract_all returns the
\* concatenation, in walk order, of what get_anomalies() and get_normal()
\* returned for every file with an annotation file of the same base name;
\* the counts add up, and a file without one adds nothing and no error.
C14_ExtractAllConcatenates ==
    /\ (~merged /\ folder_result.status = "ok") =>
           /\ folder_result.anomalies =
                  Concat([i \in 1..Len(per_file) |-> per_file[i].anomalies])
           /\ folder_result.normal =
                  Concat([i \in 1..Len(per_file) |-> per_file[i].normal])
           /\ Len(folder_result.anomalies) =
                  SumSeq([i \in 1..Len(per_file) |->
                             Len(per_file[i].anomalies)])
           /\ Len(folder_result.normal) =
                  SumSeq([i \in 1..Len(per_file) |->
                             Len(per_file[i].normal)])
           /\ {per_file[i].pos : i \in 1..Len(per_file)} = WithAnnotation
           /\ \A i, j \in 1..Len(per_file) :
                  i < j => per_file[i].pos < per_file[j].pos
    /\ (~merged /\ pc = "done" /\ WithAnnotation = {}) =>
           /\ folder_result.status = "ok"
           /\ folder_result.anomalies = <<>>
           /\ folder_result.normal = <<>>

\* extract_all returned the segments of two files in a folder
C14_Witness ==
    /\ ~merged
    /\ folder_result.status = "ok"
    /\ Len(per_file) = 2
    /\ per_file[1].anomalies # <<>>
    /\ per_file[2].anomalies # <<>>
    /\ per_file[1].anomalies # per_file[2].anomalies
    /\ folder_result.normal # <<>>

\* extract_all passed over a file without an annotation file and returned
\* the segments of the other file
C14_SkipReached ==
    /\ ~merged
    /\ folder_result.status = "ok"
    /\ WithAnnotation # 1..Len(folder)
    /\ folder_result.anomalies # <<>>

\* C15 as stated: an error raised while one file is processed is caught at
\* the aggregation boundary; the walk goes on to the files after it and the
\* run returns what it accumulated; only a frequency mismatch aborts it.
C15_Original ==
    pc = "done" =>
        /\ folder_result.status \in {"ok", "FrequencyMismatchError"}
        /\ AllProcessed

---------------------------------------------------------------------------
(* Signal._load_index_data (loader.py 86-104) *)

\* every variable of an extractor, a folder run and a Signal list at rest
NoExtractor ==
    /\ index = <<>>
    /\ all_data = <<>>
    /\ sgArtefacts = <<>>
    /\ globalArtefacts = <<>>
    /\ matching = FALSE
    /\ matching_multiplier = 1
    /\ skip_empty = TRUE
    /\ data_cache = <<>>
    /\ anomalies = <<>>
    /\ normal = <<>>
    /\ seg_result = NoResult
    /\ kept_normal = NoReturn
    /\ ret_anomalies = NoReturn
    /\ ret_normal = NoReturn
    /\ raised = "none"
    /\ file_path = DefaultPath
    /\ seg_list = <<>>
    /\ NoFolder

Channels == {"abp", "art", "icp"}

\* an HDF5 file: the channels c with a dataset waves/c, those with a
\* dataset waves/c.index, and those whose dataset has an attribute "index"
Hdf5Files ==
    {[datasets |-> d, index_datasets |-> x, attrs |-> a] :
        d \in SUBSET Channels, x \in SUBSET Channels, a \in SUBSET Channels}

\* lines 94-95: the channel the Signal reads from then on
ResolvedMode(hdf, mode) ==
    IF mode = "abp" /\ "art" \in hdf.datasets THEN "art" ELSE mode

\* lines 97-99: the index of the resolved channel, from the dataset
\* waves/<mode>.index or else from the attribute of waves/<mode>
LoadIndexData(hdf, mode) ==
    LET m == ResolvedMode(hdf, mode)
    IN  IF m \in hdf.index_datasets
        THEN [status |-> "ok", mode |-> m, source |-> "index"]
        ELSE IF m \in hdf.datasets /\ m \in hdf.attrs
        THEN [status |-> "ok", mode |-> m, source |-> "attrs"]
        ELSE [status |-> "KeyError", mode |-> m, source |-> "none"]

InitChannel ==
    /\ NoExtractor
    /\ args \in {[hdf |-> h, mode |-> m] :
                    h \in {f \in Hdf5Files : f.attrs \subseteq f.datasets},
                    m \in {"abp", "icp"}}
    /\ result = <<>>

\* Signal.__init__: self._index_data = self._load_index_data()
LoadIndex ==
    /\ result = <<>>
    /\ result' = LoadIndexData(args.hdf, args.mode)
    /\ UNCHANGED <<fileVars, optionVars, folderVars, seg_list, args>>

NextChannel == LoadIndex

SpecChannel == InitChannel /\ [][NextChannel]_vars

\* C16 as stated: mode "abp" is replaced by "art" only when the file has no
\* channel "abp": with both channels "abp" is used, with "art" alone "art"
\* is used, and mode "icp" is never replaced.
C16_Original ==
    (result # <<>> /\ result.status = "ok") =>
        /\ args.mode = "icp" => result.mode = "icp"
        /\ (args.mode = "abp" /\ "abp" \in args.hdf.datasets)
               => result.mode = "abp"
        /\ (args.mode = "abp" /\ "abp" \notin args.hdf.datasets
                /\ "art" \in args.hdf.datasets)
               => result.mode = "art"

---------------------------------------------------------------------------
(* Artefact.__eq__ (artefact.py 85-88) *)

\* Artefact(start_time, end_time, modified_time, modified_by); a datetime is
\* held as the instant it denotes
Artefact(start_time, end_time, modified_time, modified_by) ==
    [type |-> "Artefact", start_time |-> start_time, end_time |-> end_time,
     modified_time |-> modified_time, modified_by |-> modified_by]

ArtefactValues ==
    {Artefact(s, e, t, by) :
        s \in 1..MaxStamp, e \in 1..MaxStamp, t \in 1..MaxStamp,
        by \in {"Administrator", "user"}}

\* values that are no Artefact: None, and objects of another class with the
\* same attributes
OtherValues ==
    {[type |-> "NoneType", start_time |-> 0, end_time |-> 0,
      modified_time |-> 0, modified_by |-> ""]}
    \cup {[type |-> "Segment", start_time |-> s, end_time |-> e,
           modified_time |-> 1, modified_by |-> "Administrator"] :
             s \in 1..MaxStamp, e \in 1..MaxStamp}

\* a variant of ArtefactEq that also compares who modified the artefact
ArtefactEqModifiedBy(self, other) ==
    IF other.type # "Artefact" THEN FALSE
    ELSE /\ self.start_time = other.start_time
         /\ self.end_time = other.end_time
         /\ self.modified_by = other.modified_by

\* lines 85-88
ArtefactEq(self, other) ==
    IF other.type # "Artefact" THEN FALSE
    ELSE /\ self.start_time = other.start_time
         /\ self.end_time = other.end_time

InitArtefact ==
    /\ NoExtractor
    /\ args \in {[self |-> a, other |-> b] :
                    a \in ArtefactValues,
                    b \in ArtefactValues \cup OtherValues}
    /\ result = <<>>

\* self == other
Compare ==
    /\ result = <<>>
    /\ result' = [value |-> ArtefactEq(args.self, args.other)]
    /\ UNCHANGED <<fileVars, optionVars, folderVars, seg_list, args>>

NextArtefact == Compare

SpecArtefact == InitArtefact /\ [][NextArtefact]_vars

\* C17: two Artefacts are equal exactly when their start_time and their
\* end_time are equal, whatever modified_by and modified_time are, and an
\* Artefact is not equal to a value that is no Artefact.
C17_EqualityByTimes ==
    result # <<>> =>
        /\ args.other.type # "Artefact" => ~result.value
        /\ args.other.type = "Artefact" =>
               (result.value <=>
                    /\ args.self.start_time = args.other.start_time
                    /\ args.self.end_time = args.other.end_time)

\* two Artefacts that differ in both modification fields compare equal
C17_Witness ==
    /\ result # <<>>
    /\ result.value
    /\ args.self.modified_by # args.other.modified_by
    /\ args.self.modified_time # args.other.modified_time

\* an object of another class with the same times compares unequal
C17_OtherReached ==
    /\ result # <<>>
    /\ ~result.value
    /\ args.other.type = "Segment"
    /\ args.self.start_time = args.other.start_time
    /\ args.self.end_time = args.other.end_time

---------------------------------------------------------------------------
(* timestamp strings: str_time_fill_ms (helpers.py 27-34),
   Artefact.from_artf_dict (artefact.py 57-76), ARTFExporter.export
   (exporters.py 44-50) *)

\* A timestamp string "DD/MM/YYYY HH:MM:SS[.f...]": `whole' stands for the
\* zero-padded text before the dot and for the second it denotes, `dot' says
\* whether a dot follows, `fraction' is the digits after the dot.
TimeString(whole, dot, fraction) ==
    [whole |-> whole, dot |-> dot, fraction |-> fraction]

DigitSet == {0, 7}

DigitStrings(n) == UNION {[1..k -> DigitSet] : k \in 0..n}

TimeStrings ==
    {TimeString(w, FALSE, <<>>) : w \in 1..MaxStamp}
    \cup {TimeString(w, TRUE, f) :
            w \in 1..MaxStamp, f \in DigitStrings(MaxDigits)}

\* f"{ms:0<6}": zeros on the right up to the width, longer text unchanged
PadRight(digits, width) ==
    [i \in 1..Max(Len(digits), width) |->
        IF i <= Len(digits) THEN digits[i] ELSE 0]

\* f"{ms:0>6}": zeros on the left, a variant of PadRight
PadLeft(digits, width) ==
    LET n == Max(Len(digits), width) IN
    [i \in 1..n |->
        IF i <= n - Len(digits) THEN 0 ELSE digits[i - (n - Len(digits))]]

\* a variant of StrTimeFillMs that fills with zeros on the left
StrTimeFillMsLeft(strtime) ==
    IF ~strtime.dot
    THEN TimeString(strtime.whole, TRUE, PadLeft(<<>>, FRACTION_WIDTH))
    ELSE TimeString(strtime.whole, TRUE,
                    PadLeft(strtime.fraction, FRACTION_WIDTH))

\* helpers.py 27-34; one dot at most occurs in a TimeString
StrTimeFillMs(strtime) ==
    IF ~strtime.dot
    THEN TimeString(strtime.whole, TRUE, PadRight(<<>>, FRACTION_WIDTH))
    ELSE TimeString(strtime.whole, TRUE,
                    PadRight(strtime.fraction, FRACTION_WIDTH))

RECURSIVE Pow10(_)
Pow10(n) == IF n = 0 THEN 1 ELSE 10 * Pow10(n - 1)

\* the number a digit string denotes
RECURSIVE DigitsValue(_)
DigitsValue(digits) ==
    IF digits = <<>> THEN 0
    ELSE 10 * DigitsValue(SubSeq(digits, 1, Len(digits) - 1))
         + digits[Len(digits)]

\* %f of strptime: one to six digits, zero-padded on the right
ParseFraction(digits) ==
    DigitsValue(digits) * Pow10(FRACTION_WIDTH - Len(digits))

\* datetime.strptime(text, "%d/%m/%Y %H:%M:%S.%f")
Strptime(text) ==
    IF /\ text.dot
       /\ Len(text.fraction) >= 1
       /\ Len(text.fraction) <= FRACTION_WIDTH
    THEN [status |-> "ok", second |-> text.whole,
          microsecond |-> ParseFraction(text.fraction)]
    ELSE [status |-> "ValueError", second |-> 0, microsecond |-> 0]

\* one field of from_artf_dict: lines 60-64, 65-69, 70-74
ParseField(text) == Strptime(StrTimeFillMs(text))

\* dt.strftime("%d/%m/%Y %H:%M:%S.%f"): %f writes six digits
Strftime(dt) ==
    TimeString(dt.second, TRUE,
        [i \in 1..FRACTION_WIDTH |->
            (dt.microsecond \div Pow10(FRACTION_WIDTH - i)) % 10])

\* exporters.py 46, 48, 50: strftime(DATE_FMT)[:-3]
ExportField(dt) ==
    LET text == Strftime(dt) IN
    TimeString(text.whole, TRUE,
        SubSeq(text.fraction, 1, Len(text.fraction) - EXPORT_CUT))

NoText == TimeString(0, FALSE, <<>>)

InitTime ==
    /\ NoExtractor
    /\ args \in TimeStrings
    /\ result = <<>>

\* Artefact.from_artf_dict on one field
FromArtfDict ==
    /\ result = <<>>
    /\ result' = [time |-> ParseField(args), via |-> "none", text |-> NoText]
    /\ UNCHANGED <<fileVars, optionVars, folderVars, seg_list, args>>

\* the parsed time rendered with the format string it was parsed with
Rerender ==
    /\ result # <<>>
    /\ result.time.status = "ok"
    /\ result.via = "none"
    /\ result' = [result EXCEPT !.via = "strftime",
                                !.text = Strftime(result.time)]
    /\ UNCHANGED <<fileVars, optionVars, folderVars, seg_list, args>>

\* the parsed time rendered as the exporter writes it
Export ==
    /\ result # <<>>
    /\ result.time.status = "ok"
    /\ result.via = "none"
    /\ result' = [result EXCEPT !.via = "export",
                                !.text = ExportField(result.time)]
    /\ UNCHANGED <<fileVars, optionVars, folderVars, seg_list, args>>

NextTime == FromArtfDict \/ Rerender \/ Export

SpecTime == InitTime /\ [][NextTime]_vars

Rendered == result # <<>> /\ result.via # "none"

\* the instant a rendering denotes is the parsed one
SameInstant == Strptime(result.text) = result.time

\* C18 as stated: every rendering of the parsed time, the exporter's
\* included, reproduces the original string to microsecond precision, that
\* is, it denotes the instant the original string denotes.
C18_Original == Rendered => SameInstant

\* C18: rendering the parsed time with the format string reproduces the
\* original string with its fraction zero-filled to six digits, hence the
\* original itself exactly when it had six fraction digits, and denotes the
\* same instant; the exporter's rendering keeps the first three fraction
\* digits only, and denotes the same instant exactly when the parsed time
\* is a whole number of milliseconds.
C18_RoundTrip ==
    Rendered =>
        /\ result.text.whole = args.whole
        /\ result.text.dot
        /\ \A i \in DOMAIN result.text.fraction :
               result.text.fraction[i] =
                   IF args.dot /\ i <= Len(args.fraction)
                   THEN args.fraction[i] ELSE 0
        /\ result.via = "strftime" =>
               /\ Len(result.text.fraction) = FRACTION_WIDTH
               /\ SameInstant
               /\ (result.text = args <=>
                       args.dot /\ Len(args.fraction) = FRACTION_WIDTH)
        /\ result.via = "export" =>
               /\ Len(result.text.fraction) = FRACTION_WIDTH - EXPORT_CUT
               /\ (SameInstant <=> result.time.microsecond % 1000 = 0)

\* a string with fewer than six fraction digits, the last one not zero, has
\* been parsed and rendered with the format string
C18_Witness ==
    /\ Rendered
    /\ result.via = "strftime"
    /\ args.dot
    /\ Len(args.fraction) \in 1..(FRACTION_WIDTH - 1)
    /\ args.fraction[Len(args.fraction)] # 0
    /\ result.text # args

\* the exporter has rendered a time with a fraction of a millisecond
C18_ExportReached ==
    /\ Rendered
    /\ result.via = "export"
    /\ result.time.microsecond % 1000 # 0

\* a string with more than six fraction digits is refused
C18_RefusedReached ==
    /\ result # <<>>
    /\ result.time.status = "ValueError"

---------------------------------------------------------------------------
(* Signal.prepare_data_for_segments on a list of segments (loader.py
   118-135) *)

\* the segments handed to the Signal: any two times on the tick grid from
\* one tick before the first chunk on, in either order
GivenSegments ==
    {Segment(s * Tick, e * Tick, 1) :
        s \in (FirstChunkStart \div Tick - 1)..MaxTick,
        e \in (FirstChunkStart \div Tick - 1)..MaxTick}

InitSignal ==
    /\ index \in Indexes
    /\ all_data = StoreFor(index)
    /\ sgArtefacts = <<>>
    /\ globalArtefacts = <<>>
    /\ matching = FALSE
    /\ matching_multiplier = 1
    /\ skip_empty = TRUE
    /\ data_cache = <<>>
    /\ anomalies = <<>>
    /\ normal = <<>>
    /\ seg_result = NoResult
    /\ kept_normal = NoReturn
    /\ ret_anomalies = NoReturn
    /\ ret_normal = NoReturn
    /\ raised = "none"
    /\ file_path = DefaultPath
    /\ seg_list \in SeqsUpTo(GivenSegments, MaxSegments) \ {<<>>}
    /\ NoFolder
    /\ NoCall

\* signal.prepare_data_for_segments(seg_list)
PrepareData ==
    /\ raised = "none"
    /\ LET r == PrepareDataForSegments(seg_list, 1, data_cache, <<>>)
       IN  /\ raised' = r.status
           /\ seg_list' = r.segments
           /\ data_cache' = r.cache
    /\ UNCHANGED <<index, all_data, sgArtefacts, globalArtefacts, anomalies,
                   normal, seg_result, kept_normal, ret_anomalies,
                   ret_normal, file_path, optionVars, folderVars, callVars>>

NextSignal == PrepareData

SpecSignal == InitSignal /\ [][NextSignal]_vars

\* lines 119-122
StartIdx(segment) == SearchSortedRight(segment.start_time, segment.den) - 1

EndIdx(segment) == SearchSortedLeft(segment.end_time, segment.den)

\* line 124: range(start_idx, end_idx) is not empty
HasCandidates(segment) == StartIdx(segment) < EndIdx(segment)

\* the frequency of the last chunk of the segment's own range
OwnFrequency(segment) == index[PyAt(EndIdx(segment) - 1)].frequency

\* C20 as stated: every segment of the list, one with an empty candidate
\* range or one that starts before the first chunk included, gets the
\* frequency of the last chunk visited in its own candidate loop, never one
\* left over from the loop of a previous segment.
C20_Original ==
    raised # "none" =>
        /\ raised = "ok"
        /\ \A i \in 1..Len(seg_list) :
               /\ HasCandidates(seg_list[i])
               /\ seg_list[i].frequency = OwnFrequency(seg_list[i])

\* a segment whose range visits a chunk gets the frequency of the last
\* chunk of that range
C20_OwnLoopWhenVisited ==
    raised = "ok" =>
        \A i \in 1..Len(seg_list) :
            HasCandidates(seg_list[i]) =>
                seg_list[i].frequency = OwnFrequency(seg_list[i])

\* the first segment of the list has an empty range: idx is unbound
C20_UnboundReached ==
    /\ raised = "UnboundLocalError"
    /\ ~HasCandidates(seg_list[1])

\* a later segment with an empty range keeps the chunk of the segment
\* before it, a chunk that starts after the segment has ended and whose
\* frequency differs from the chunk that holds the segment
C20_LeftOverReached ==
    /\ raised = "ok"
    /\ Len(seg_list) = 2
    /\ HasCandidates(seg_list[1])
    /\ ~HasCandidates(seg_list[2])
    /\ seg_list[2].frequency = OwnFrequency(seg_list[1])
    /\ index[PyAt(EndIdx(seg_list[1]) - 1)].starttime * seg_list[2].den
           > seg_list[2].end_time
    /\ seg_list[2].frequency # index[1].frequency

\* a segment that ends where the first chunk starts gets the last chunk's
\* frequency
C20_BeforeFirstReached ==
    /\ raised = "ok"
    /\ Len(index) = 2
    /\ seg_list[1].end_time = index[1].starttime * seg_list[1].den
    /\ seg_list[1].start_time < seg_list[1].end_time
    /\ seg_list[1].frequency = index[2].frequency
    /\ index[1].frequency # index[2].frequency

---------------------------------------------------------------------------
(* Further properties of the extractor (Spec) *)

\* the sample interval of the chunk a cache entry holds: its key spans
\* length * interval (lines 126-127)
EntryInterval(entry) ==
    (entry.data_end - entry.data_start) \div Len(entry.data)

\* the slice of a cached chunk with the offsets taken in units of the
\* chunk's own interval, clipped to the chunk
OwnIntervalSlice(entry, segment) ==
    LET unit == segment.den * EntryInterval(entry)
        lo == Max(0, TruncDiv(segment.start_time
                                  - entry.data_start * segment.den, unit))
        hi == Min(Len(entry.data),
                  TruncDiv(segment.end_time
                               - entry.data_start * segment.den, unit))
    IN  SubSeq(entry.data, lo + 1, hi)

\* the slices of the cached chunks that pass the filter of line 154, in
\* cache order, each cut with its own interval
OwnIntervalData(cache, segment) ==
    Concat([k \in 1..Len(cache) |->
               IF Overlaps(cache[k], segment)
               THEN OwnIntervalSlice(cache[k], segment)
               ELSE <<>>])

\* C21 as stated: the slice of each cached chunk is cut with that chunk's
\* own sample interval, not with the first chunk's; the anomalous segments
\* are resolved last, so data_cache is the cache their resolution saw.
C21_Original ==
    Materialised =>
        \A i \in 1..Len(anomalies) :
            anomalies[i].data
                = NanToNum(OwnIntervalData(data_cache, anomalies[i]))

\* an anomalous segment that covers the whole second chunk, whose interval
\* is a quarter of the first chunk's, gets no sample
C21_FirstIntervalReached ==
    /\ Materialised
    /\ Len(index) = 2
    /\ Interval(index[2].frequency) < FirstInterval
    /\ \E i \in 1..Len(anomalies) :
           /\ anomalies[i].start_time = index[2].starttime * anomalies[i].den
           /\ anomalies[i].end_time
                  = DataRangeEnd(index[2]) * anomalies[i].den
           /\ anomalies[i].data = <<>>
           /\ ~anomalies[i].empty

\* no two cache entries have the same key
DistinctKeys(cache) ==
    \A k, l \in 1..Len(cache) :
        (/\ cache[k].data_start = cache[l].data_start
         /\ cache[k].data_end = cache[l].data_end) => k = l

\* every cache entry holds the samples of the index chunk with its key
HoldsChunks(cache) ==
    \A k \in 1..Len(cache) :
        \E j \in 1..Len(index) : cache[k] = ChunkEntry(index[j])

\* every entry of cache a is an entry of cache b, at the same place
KeptIn(a, b) ==
    /\ Len(a) <= Len(b)
    /\ \A k \in 1..Len(a) : b[k] = a[k]

\* C22: over any sequence of calls on one Signal every step leaves each
\* cached entry in place and unchanged, and the cache holds one entry per
\* key, the samples of the index chunk with that key: a fetch adds an
\* entry, so no chunk is fetched twice.
C22_FetchedOnce ==
    [][/\ KeptIn(data_cache, data_cache')
       /\ DistinctKeys(data_cache')
       /\ HoldsChunks(data_cache')]_vars

\* both getters have returned, the cache holds both chunks of the index,
\* and one chunk was a candidate of a normal and of an anomalous segment
C22_Witness ==
    /\ ret_anomalies.status = "ok"
    /\ ret_normal.status = "ok"
    /\ Len(index) = 2
    /\ Len(data_cache) = 2
    /\ \E j \in 1..Len(index) :
           /\ \E i \in 1..Len(normal) :
                  StrictlyOverlaps(index[j], normal[i])
           /\ \E i \in 1..Len(anomalies) :
                  StrictlyOverlaps(index[j], anomalies[i])

---------------------------------------------------------------------------
(* the sample interval of an index chunk (loader.py 83) *)

\* whole frequencies in Hz, held in mHz as in the index
GivenFrequencies == {hz * 1000 : hz \in 1..MaxHz}

InitInterval ==
    /\ NoExtractor
    /\ args \in {[frequency |-> f] : f \in GivenFrequencies}
    /\ result = <<>>

\* line 83 for one index chunk
ComputeInterval ==
    /\ result = <<>>
    /\ result' = [interval |-> Interval(args.frequency)]
    /\ UNCHANGED <<fileVars, optionVars, folderVars, seg_list, args>>

NextInterval == ComputeInterval

SpecInterval == InitInterval /\ [][NextInterval]_vars

\* C23 as stated: the interval is round(1_000_000 / frequency)
\* microseconds for every positive frequency.
C23_Original ==
    result # <<>> =>
        result.interval = Round(MICROS * 1000, args.frequency)

\* 150 Hz gives 6666
C23_TruncatedReached ==
    /\ result # <<>>
    /\ args.frequency = 150 * 1000
    /\ result.interval = 6666

\* the interval is the quotient cut toward zero, the rounded quotient when
\* the remainder is below one half
C23_Truncates ==
    result # <<>> =>
        /\ result.interval * args.frequency <= MICROS * 1000
        /\ (result.interval + 1) * args.frequency > MICROS * 1000

---------------------------------------------------------------------------
(* Further properties of the segmenter (SpecSeg) *)

\* the time ranges of two segments share more than a point
SegmentsOverlap(a, b) ==
    /\ a.start_time * b.den < b.end_time * a.den
    /\ b.start_time * a.den < a.end_time * b.den

\* C24 as stated: no normal segment of a segmentation overlaps in time an
\* anomalous segment of the same segmentation, an artefact of one source
\* list lying inside a gap of the other list included.
C24_Original ==
    seg_result.status = "ok" =>
        \A i \in 1..Len(seg_result.normal) :
            \A j \in 1..Len(seg_result.anomalous) :
                ~SegmentsOverlap(seg_result.normal[i],
                                 seg_result.anomalous[j])

\* a Global artefact lies inside the gap between two SignalGroup artefacts
\* and a normal segment of that gap covers it
C24_GlobalInGapReached ==
    /\ seg_result.status = "ok"
    /\ Len(sgArtefacts) = 2
    /\ Len(globalArtefacts) = 1
    /\ sgArtefacts[1].end_time <= globalArtefacts[1].start_time
    /\ globalArtefacts[1].end_time <= sgArtefacts[2].start_time
    /\ \E i \in 1..Len(seg_result.normal) :
           /\ seg_result.normal[i].start_time
                  <= globalArtefacts[1].start_time * seg_result.normal[i].den
           /\ globalArtefacts[1].end_time * seg_result.normal[i].den
                  <= seg_result.normal[i].end_time

\* the first gap of the SignalGroup list: from the end of its first
\* artefact to the start of its second
FirstGapStart == sgArtefacts[1].end_time

FirstGapEnd == sgArtefacts[2].start_time

FirstGap == FirstGapEnd - FirstGapStart

\* floor(D / 10 s)
FirstGapWindows == FirstGap \div WINDOW

\* C25: the normal segments of one gap of duration D >= 10 s tile the gap:
\* there are floor(D / 10 s) of them, the first starts where the preceding
\* artefact ends, each ends where the next starts, the last ends where the
\* following artefact starts, and each lasts D / floor(D / 10 s), which is
\* at least 10 s and less than 20 s.
C25_GapTiled ==
    (/\ seg_result.status = "ok"
     /\ Len(sgArtefacts) >= 2
     /\ FirstGap >= WINDOW) =>
        LET n == FirstGapWindows
            nr == seg_result.normal
        IN  /\ Len(nr) >= n
            /\ nr[1].start_time = FirstGapStart * nr[1].den
            /\ nr[n].end_time = FirstGapEnd * nr[n].den
            /\ \A i \in 1..(n - 1) :
                   nr[i].end_time * nr[i + 1].den
                       = nr[i + 1].start_time * nr[i].den
            /\ \A i \in 1..n :
                   /\ (nr[i].end_time - nr[i].start_time) * n
                          = FirstGap * nr[i].den
                   /\ nr[i].end_time - nr[i].start_time
                          >= WINDOW * nr[i].den
                   /\ nr[i].end_time - nr[i].start_time
                          < 2 * WINDOW * nr[i].den

\* a gap of 25 s, no multiple of the window, was cut into two segments
C25_Witness ==
    /\ seg_result.status = "ok"
    /\ Len(sgArtefacts) = 2
    /\ FirstGap >= 2 * WINDOW
    /\ FirstGap % WINDOW # 0
    /\ Len(seg_result.normal) = 2
    /\ seg_result.normal[1].end_time - seg_result.normal[1].start_time
           > WINDOW * seg_result.normal[1].den

\* C26 as stated: whatever the order of the artefacts within a source
\* list, the segmentation raises no error, emits every artefact as an
\* anomalous segment and emits no normal segment for a pair whose gap is
\* negative, of any size.
C26_Original ==
    raised # "none" =>
        /\ seg_result.status = "ok"
        /\ Len(seg_result.anomalous)
               = Len(sgArtefacts) + Len(globalArtefacts)
        /\ (Len(sgArtefacts) = 2 /\ FirstGap < 0)
               => seg_result.normal = <<>>

\* the second artefact starts 20 s or more before the first one ends:
\* np.linspace is asked for a negative number of points
C26_ValueErrorReached ==
    /\ Len(sgArtefacts) = 2
    /\ FirstGap <= -2 * WINDOW
    /\ seg_result.status = "ValueError"

\* a negative gap of less than 20 s yields no normal segment and no error
C26_SmallNegativeGap ==
    (/\ raised # "none"
     /\ Len(sgArtefacts) = 2
     /\ FirstGap < 0
     /\ FirstGap > -2 * WINDOW) =>
        /\ seg_result.status = "ok"
        /\ seg_result.normal = <<>>
        /\ Len(seg_result.anomalous)
               = Len(sgArtefacts) + Len(globalArtefacts)

---------------------------------------------------------------------------
(* What a fresh extractor returns (Spec) *)

\* the lists of the segmenter for the file
FileSegments == GetAnomalyNormalSegments(sgArtefacts, globalArtefacts)

\* the normal list as the first _extract() of an extractor resolves it: the
\* chunk cache is empty before
FreshNormal ==
    ExtractDataForSegments(NormalSegmentsOf(FileSegments), <<>>)

\* the anomalous list as the first _extract() resolves it: the cache holds
\* what the normal list left
FreshAnomalies ==
    ExtractDataForSegments(FileSegments.anomalous, FreshNormal.cache)

\* the first call of get_normal() on a new extractor
FreshGetNormal ==
    IF FileSegments.status # "ok" THEN Returned(FileSegments.status, <<>>)
    ELSE IF FreshNormal.status # "ok" THEN Returned(FreshNormal.status, <<>>)
    ELSE Returned(FreshAnomalies.status, FreshNormal.segments)

\* the first call of get_anomalies() on a new extractor
FreshGetAnomalies ==
    IF FileSegments.status # "ok" THEN Returned(FileSegments.status, <<>>)
    ELSE IF FreshNormal.status # "ok" THEN Returned(FreshNormal.status, <<>>)
    ELSE Returned(FreshAnomalies.status, FreshAnomalies.segments)

\* C27 as stated: whatever calls came before on the extractor,
\* get_anomalies() and get_normal() return what the first call on a new
\* extractor returns for the file.
C27_Original ==
    /\ ret_normal.status # "none" => ret_normal = FreshGetNormal
    /\ ret_anomalies.status # "none" => ret_anomalies = FreshGetAnomalies

\* get_normal() has returned more segments than its first call on a new
\* extractor does
C27_CacheGrewReached ==
    /\ ret_normal.status = "ok"
    /\ FreshGetNormal.status = "ok"
    /\ Len(ret_normal.value) > Len(FreshGetNormal.value)

---------------------------------------------------------------------------
(* Further properties of the folder aggregation (SpecFolder) *)

\* the frequencies of the segments of a list
FrequenciesOf(list) == {list[k].frequency : k \in 1..Len(list)}

\* the frequencies of the segments the aggregation returned
ReturnedFrequencies ==
    IF merged
    THEN UNION {FrequenciesOf(folder_result.anomalies[k].list) :
                   k \in 1..Len(folder_result.anomalies)}
         \cup UNION {FrequenciesOf(folder_result.normal[k].list) :
                        k \in 1..Len(folder_result.normal)}
    ELSE FrequenciesOf(folder_result.anomalies)
         \cup FrequenciesOf(folder_result.normal)

\* C28 as stated: when extract_all or extract_merged returns, all returned
\* segments carry one frequency, and the frequency get_frequency reported
\* for a file is the frequency of every segment returned for that file.
C28_Original ==
    folder_result.status = "ok" =>
        /\ Cardinality(ReturnedFrequencies) <= 1
        /\ \A i \in 1..Len(per_file) :
               FrequenciesOf(per_file[i].anomalies)
                   \cup FrequenciesOf(per_file[i].normal)
                       \subseteq {per_file[i].frequency}

\* one file whose index holds chunks of two frequencies was processed, the
\* run returned, and the returned anomalies carry two frequencies
C28_MixedFileReached ==
    /\ folder_result.status = "ok"
    /\ Len(per_file) = 1
    /\ Cardinality(FrequenciesOf(per_file[1].anomalies)) = 2
    /\ Cardinality(ReturnedFrequencies) = 2

\* on folders whose files each hold one chunk, a returning run hands out
\* segments of one frequency, the one reported for each file
C28_OneChunkFiles ==
    (/\ folder_result.status = "ok"
     /\ \A p \in 1..Len(folder) : Len(folder[p].index) <= 1) =>
        /\ Cardinality(ReturnedFrequencies) <= 1
        /\ \A i \in 1..Len(per_file) :
               FrequenciesOf(per_file[i].anomalies)
                   \cup FrequenciesOf(per_file[i].normal)
                       \subseteq {per_file[i].frequency}

\* what _extract() of extract_all gets from the segmenter for the file at
\* position p of the folder
SegmenterStatus(p) ==
    SegmentFile(Root \o folder[p].name, folder[p].sg, <<>>).status

\* extract_all opens the file at position p and its extractor raises
\* AttributeError at line 236
AllRaisesOn(p) ==
    /\ folder[p].has_artf
    /\ folder[p].fault = "none"
    /\ SegmenterStatus(p) = "AttributeError"

\* every segment filed under a patient key carries that patient id
KeysMatchPatients(dict) ==
    \A k \in 1..Len(dict) : \A i \in 1..Len(dict[k].list) :
        dict[k].list[i].patient_id = dict[k].patient

\* C29 as stated: extract_merged and extract_all fail or succeed on the
\* same folders, so extract_merged does not return on a folder that holds
\* a file on which extract_all raises, and every segment filed under
\* patient key p has patient_id p.
C29_Original ==
    (merged /\ folder_result.status = "ok") =>
        /\ \A p \in 1..Len(folder) : ~AllRaisesOn(p)
        /\ KeysMatchPatients(folder_result.anomalies)
        /\ KeysMatchPatients(folder_result.normal)

\* a folder of one file whose name does not hold the pattern, with one
\* artefact in its annotation file
UnnamedFolder ==
    <<SignalFile(<<"a">>, TRUE, "none", OneChunk(100),
                 <<[start_time |-> 4 * Tick, end_time |-> 5 * Tick]>>)>>

\* extract_merged returns two empty dicts on that folder
C29_MergedReturnsReached ==
    /\ merged
    /\ folder = UnnamedFolder
    /\ folder_result.status = "ok"
    /\ folder_result.anomalies = <<>>
    /\ folder_result.normal = <<>>

\* extract_all raises AttributeError on that folder
C29_AllRaisesReached ==
    /\ ~merged
    /\ folder = UnnamedFolder
    /\ folder_result.status = "AttributeError"

\* a folder of one file whose name holds the pattern after its start
InfixFolder ==
    <<SignalFile(<<"a", "TBI_", "b">>, TRUE, "none", OneChunk(100),
                 <<[start_time |-> 4 * Tick, end_time |-> 5 * Tick]>>)>>

\* extract_all returns a segment of that folder
C29_AllReturnsInfixReached ==
    /\ ~merged
    /\ folder = InfixFolder
    /\ folder_result.status = "ok"
    /\ Len(folder_result.anomalies) = 1

\* extract_merged returns nothing of it
C29_MergedSkipsInfixReached ==
    /\ merged
    /\ folder = InfixFolder
    /\ folder_result.status = "ok"
    /\ folder_result.anomalies = <<>>

---------------------------------------------------------------------------
(* The segments the getters return (Spec) *)

\* the segments the latest get_anomalies() and get_normal() returned
ReturnedSegments ==
    {ret_anomalies.value[i] : i \in 1..Len(ret_anomalies.value)}
        \cup {ret_normal.value[i] : i \in 1..Len(ret_normal.value)}

\* the range of the segment starts where a chunk ends or ends where a chunk
\* starts, and meets no chunk otherwise
OnlyTouches(segment) ==
    /\ \A k \in 1..Len(index) : ~StrictlyOverlaps(index[k], segment)
    /\ \E k \in 1..Len(index) :
           \/ DataRangeEnd(index[k]) * segment.den = segment.start_time
           \/ index[k].starttime * segment.den = segment.end_time

\* C30 as stated: every segment get_anomalies() or get_normal() returns
\* has empty == False and at least one sample in data.
C30_Original ==
    \A segment \in ReturnedSegments :
        /\ ~segment.empty
        /\ Len(segment.data) >= 1

\* a returned segment only touches a chunk and carries no sample
C30_TouchingReached ==
    \E segment \in ReturnedSegments :
        /\ OnlyTouches(segment)
        /\ ~segment.empty
        /\ segment.data = <<>>

\* no returned segment is flagged empty
C30_NoneFlaggedEmpty ==
    \A segment \in ReturnedSegments : ~segment.empty

=============================================================================
